---- MODULE Spec2Model ----
(***************************************************************************)
(* ExpenseTracker: the recurring-payment reconciliation of                 *)
(* server/storage.ts (MemStorage, DatabaseStorage and the Express routes   *)
(* that drive them).                                                       *)
(*                                                                         *)
(* Time.  A JavaScript Date is an integer number of ticks; a day has       *)
(* TicksPerDay ticks, tick 0 of a day being UTC midnight.  A date string   *)
(* "YYYY-MM-DD" is the day number counted from 2024-01-01 (day 0).  The    *)
(* server runs in UTC, so the local-time setters (setDate, setMonth,       *)
(* setFullYear) and toISOString agree on the calendar day.                 *)
(*                                                                         *)
(* Text.  A description is a sequence of tokens; String.includes is        *)
(* contiguous containment of token sequences.                              *)
(***************************************************************************)
EXTENDS Integers, Sequences, FiniteSets, TLC

\* ------------------------------------------------------------------ bounds

\* Ticks in one day: the clock's resolution inside a day.
TicksPerDay == 2

\* Recurring payments ever created in one behaviour.
MaxPayments == 2

\* Expenses the user posts by hand in one behaviour.
MaxManual == 1

\* Store operations that reject in one behaviour.
MaxFailures == 1

\* ---------------------------------------------------------------- calendar

Years == 2024..2027

IsLeap(y) == (y % 4 = 0 /\ y % 100 # 0) \/ y % 400 = 0

DaysInMonth(y, m) ==
    IF m = 2 THEN (IF IsLeap(y) THEN 29 ELSE 28)
    ELSE IF m \in {4, 6, 9, 11} THEN 30 ELSE 31

DaysInYear(y) == IF IsLeap(y) THEN 366 ELSE 365

RECURSIVE DaysBeforeYear(_)
DaysBeforeYear(y) ==
    IF y <= 2024 THEN 0 ELSE DaysBeforeYear(y - 1) + DaysInYear(y - 1)

RECURSIVE DaysBeforeMonth(_, _)
DaysBeforeMonth(y, m) ==
    IF m <= 1 THEN 0 ELSE DaysBeforeMonth(y, m - 1) + DaysInMonth(y, m - 1)

\* ECMAScript MakeDay: month 13 is January of the next year, and a day past
\* the month's end runs on into the following month.
MakeDay(y, m, d) ==
    LET yy == IF m > 12 THEN y + 1 ELSE y
        mm == IF m > 12 THEN m - 12 ELSE m
    IN  DaysBeforeYear(yy) + DaysBeforeMonth(yy, mm) + (d - 1)

YearOf(n) ==
    CHOOSE y \in Years : DaysBeforeYear(y) <= n /\ n < DaysBeforeYear(y + 1)

MonthOf(n) ==
    LET y == YearOf(n)
        r == n - DaysBeforeYear(y)
    IN  CHOOSE m \in 1..12 :
            DaysBeforeMonth(y, m) <= r /\ r < DaysBeforeMonth(y, m) + DaysInMonth(y, m)

DayOfMonth(n) ==
    LET y == YearOf(n)
    IN  n - DaysBeforeYear(y) - DaysBeforeMonth(y, MonthOf(n)) + 1

\* new Date("YYYY-MM-DD"): UTC midnight of that day.
ParseDate(day) == day * TicksPerDay

\* date.toISOString().split('T')[0]
ToISODate(t) == t \div TicksPerDay

TimeOfDay(t) == t % TicksPerDay

\* currentDue.setDate(currentDue.getDate() + 7)
AddWeek(t) == t + 7 * TicksPerDay

\* currentDue.setMonth(currentDue.getMonth() + 1)
AddMonth(t) ==
    LET n == ToISODate(t)
    IN  MakeDay(YearOf(n), MonthOf(n) + 1, DayOfMonth(n)) * TicksPerDay + TimeOfDay(t)

\* currentDue.setFullYear(currentDue.getFullYear() + 1)
AddYear(t) ==
    LET n == ToISODate(t)
    IN  MakeDay(YearOf(n) + 1, MonthOf(n), DayOfMonth(n)) * TicksPerDay + TimeOfDay(t)

\* The switch on the frequency that moves currentDue to the next due date.
NextOccurrence(frequency, t) ==
    CASE frequency = "weekly"  -> AddWeek(t)
      [] frequency = "monthly" -> AddMonth(t)
      [] frequency = "yearly"  -> AddYear(t)
      [] OTHER -> t

\* -------------------------------------------------------------------- text

\* haystack.includes(needle)
Includes(haystack, needle) ==
    \E i \in 0..(Len(haystack) - Len(needle)) :
        SubSeq(haystack, i + 1, i + Len(needle)) = needle

BacklogMarker == <<"(Automatic", " - Backlog", ")">>
LiveMarker == <<"(Automatic", ")">>

\* `${description} (Automatic - Backlog)`
BacklogDescription(description) == description \o <<" ">> \o BacklogMarker

\* `${description} (Automatic)`
LiveDescription(description) == description \o <<" ">> \o LiveMarker

\* ------------------------------------------------------------------- store

Kinds == {"mem", "db"}

\* A fresh store: the MemStorage constructor, or empty tables with their
\* serial counters at 1.
\* deleted is bookkeeping that the program does not store: for each expense of
\* a recurring payment that the user has deleted, the payment's id, the
\* expense's date and whether the payment's nextDueDate was past that date.
EmptyStore ==
    [expenses |-> {}, currentExpenseId |-> 1,
     budgets |-> {}, currentBudgetId |-> 1,
     recurringPayments |-> {}, currentRecurringPaymentId |-> 1,
     deleted |-> {}]

\* createExpense: the next id, the inserted fields.  source is bookkeeping
\* that the program does not store: the id of the recurring payment whose
\* reconciliation made the call, 0 for an expense posted by the user.
createExpense(s, insertExpense, source) ==
    [s EXCEPT
        !.expenses = @ \cup
            {[id |-> s.currentExpenseId,
              description |-> insertExpense.description,
              category |-> insertExpense.category,
              amount |-> insertExpense.amount,
              date |-> insertExpense.date,
              source |-> source]},
        !.currentExpenseId = @ + 1]

\* The while loop of MemStorage.createRecurringPayment: one backlog expense
\* per due date up to now, no duplicate check, every one marked backlog.
RECURSIVE MemBacklogLoop(_, _, _, _, _)
MemBacklogLoop(s, insertPayment, id, currentDue, nowT) ==
    IF currentDue <= nowT
    THEN MemBacklogLoop(
            createExpense(s,
                [description |-> BacklogDescription(insertPayment.description),
                 category |-> insertPayment.category,
                 amount |-> insertPayment.amount,
                 date |-> ToISODate(currentDue)], id),
            insertPayment, id,
            NextOccurrence(insertPayment.frequency, currentDue), nowT)
    ELSE [s |-> s, currentDue |-> currentDue]

PaymentRecord(insertPayment, id, nextDueDate) ==
    [id |-> id,
     description |-> insertPayment.description,
     category |-> insertPayment.category,
     amount |-> insertPayment.amount,
     frequency |-> insertPayment.frequency,
     startDate |-> insertPayment.startDate,
     nextDueDate |-> nextDueDate,
     isActive |-> insertPayment.isActive]

\* MemStorage.createRecurringPayment
MemCreateRecurringPayment(s, insertPayment, nowT) ==
    LET id == s.currentRecurringPaymentId
        startDate == ParseDate(insertPayment.startDate)
        s1 == [s EXCEPT !.currentRecurringPaymentId = @ + 1]
        loop == IF startDate < nowT
                THEN MemBacklogLoop(s1, insertPayment, id, startDate, nowT)
                ELSE [s |-> s1, currentDue |-> startDate]
        payment == PaymentRecord(insertPayment, id, loop.currentDue)
    IN  [s |-> [loop.s EXCEPT !.recurringPayments = @ \cup {payment}],
         payment |-> payment]

\* DatabaseStorage.createRecurringPayment: the row, nextDueDate = startDate.
DbCreateRecurringPayment(s, insertPayment) ==
    LET id == s.currentRecurringPaymentId
        payment == PaymentRecord(insertPayment, id, ParseDate(insertPayment.startDate))
    IN  [s |-> [s EXCEPT !.currentRecurringPaymentId = @ + 1,
                         !.recurringPayments = @ \cup {payment}],
         payment |-> payment]

\* createRecurringPayment with the new payment due at once, whatever its
\* start date.
createRecurringPaymentDueNow(k, s, insertPayment, nowT) ==
    LET id == s.currentRecurringPaymentId
        payment == PaymentRecord(insertPayment, id, nowT)
    IN  [s |-> [s EXCEPT !.currentRecurringPaymentId = @ + 1,
                         !.recurringPayments = @ \cup {payment}],
         payment |-> payment]

createRecurringPayment(k, s, insertPayment, nowT) ==
    IF k = "mem" THEN MemCreateRecurringPayment(s, insertPayment, nowT)
    ELSE DbCreateRecurringPayment(s, insertPayment)

\* { ...payment, ...updateData }
Merge(payment, updateData) ==
    [f \in DOMAIN payment |->
        IF f \in DOMAIN updateData THEN updateData[f] ELSE payment[f]]

\* updateRecurringPayment that also switches the payment on.
updateRecurringPaymentAndResume(s, id, updateData) ==
    [s EXCEPT !.recurringPayments =
        {IF p.id = id THEN [Merge(p, updateData) EXCEPT !.isActive = "true"] ELSE p : p \in @}]

\* updateRecurringPayment: the row with that id, if any, takes the given
\* fields; no row, no change.
updateRecurringPayment(s, id, updateData) ==
    [s EXCEPT !.recurringPayments =
        {IF p.id = id THEN Merge(p, updateData) ELSE p : p \in @}]

\* deleteRecurringPayment with the payment's materialized expenses removed
\* along with it.
deleteRecurringPaymentCascade(s, id) ==
    [s EXCEPT !.recurringPayments = {p \in @ : p.id # id},
              !.expenses = {e \in @ : e.source # id}]

\* deleteRecurringPayment: the row with that id, if any, goes.
deleteRecurringPayment(s, id) ==
    [s EXCEPT !.recurringPayments = {p \in @ : p.id # id}]

\* MemStorage.getDueRecurringPayments: active and nextDueDate <= now.
MemDue(s, nowT) ==
    {p \in s.recurringPayments : p.isActive = "true" /\ p.nextDueDate <= nowT}

\* DatabaseStorage.getDueRecurringPayments: active and nextDueDate <= today's
\* date (the date string compared as a timestamp: its midnight).
DbDue(s, nowT) ==
    {p \in s.recurringPayments :
        p.isActive = "true" /\ p.nextDueDate <= ParseDate(ToISODate(nowT))}

\* The scanner without the isActive test.
getDueIgnoringActive(k, s, nowT) ==
    {p \in s.recurringPayments : p.nextDueDate <= nowT}

getDueRecurringPayments(k, s, nowT) ==
    IF k = "mem" THEN MemDue(s, nowT) ELSE DbDue(s, nowT)

Orderings(S) ==
    {q \in [1..Cardinality(S) -> S] : \A i, j \in DOMAIN q : q[i] = q[j] => i = j}

\* The order of the returned array.  MemStorage: the Map's insertion order,
\* which is the order of the ids.  DatabaseStorage: a SELECT without ORDER BY,
\* any order.
DueOrders(k, due) ==
    IF k = "mem"
    THEN {q \in Orderings(due) : \A i, j \in DOMAIN q : i < j => q[i].id < q[j].id}
    ELSE Orderings(due)

\* ------------------------------------------------------------------ routes

\* alreadyProcessedForDate of POST /api/recurring-payments:
\* date && includes(description) && (includes(backlog) || includes(live)).
alreadyProcessedOnCreate(existingExpenses, description, dueDateStr) ==
    \E expense \in existingExpenses :
        /\ expense.date = dueDateStr
        /\ Includes(expense.description, description)
        /\ (Includes(expense.description, BacklogMarker)
            \/ Includes(expense.description, LiveMarker))

\* alreadyProcessedForDate of POST /api/recurring-payments/process, as
\* JavaScript parses it: (date && includes(description) && includes(backlog))
\* || includes(live).
alreadyProcessedOnProcess(existingExpenses, description, dueDateStr) ==
    \E expense \in existingExpenses :
        \/ (/\ expense.date = dueDateStr
            /\ Includes(expense.description, description)
            /\ Includes(expense.description, BacklogMarker))
        \/ Includes(expense.description, LiveMarker)

\* isBacklog: currentDue < new Date(today.toISOString().split('T')[0])
isBacklog(currentDue, today) == currentDue < ParseDate(ToISODate(today))

NoPayment ==
    [id |-> 0, description |-> <<>>, category |-> "", amount |-> "",
     frequency |-> "", startDate |-> 0, nextDueDate |-> 0, isActive |-> ""]

\* A request slot: the handler's local variables and where it stands.
\* pc = "done" with status 0 is a free slot; otherwise status is the response's.
\* processedExpenses lists the expenses the request has created (the process
\* route's array of that name; on the creation route it is bookkeeping).
\* Bookkeeping too: pre, the recurring payments as the request found them;
\* after, the number of expenses the batch run just before it created (-1 if
\* it did not begin right after a successful batch run); failedOp, the store
\* operation that rejected.
Idle ==
    [route |-> "none", pc |-> "done", status |-> 0, payment |-> NoPayment,
     today |-> 0, currentDue |-> 0, existingExpenses |-> {},
     duePayments |-> <<>>, i |-> 0, processedExpenses |-> <<>>,
     pre |-> {}, after |-> -1, failedOp |-> ""]

\* POST /api/recurring-payments up to the test startDate < today.
StartCreate(k, s, validatedData, nowT) ==
    LET made == createRecurringPayment(k, s, validatedData, nowT)
        startDate == ParseDate(validatedData.startDate)
        backlog == startDate < nowT
    IN  [s |-> made.s,
         r |-> [Idle EXCEPT
                  !.route = "create",
                  !.payment = made.payment,
                  !.today = nowT,
                  !.pre = s.recurringPayments,
                  !.pc = IF backlog THEN "getExpenses" ELSE "done",
                  !.status = IF backlog THEN 0 ELSE 201]]

\* StartProcess with an empty list of due payments answered as an error.
StartProcessRejectEmpty(s, duePayments, nowT, after) ==
    [s |-> s,
     r |-> [Idle EXCEPT
              !.route = "process",
              !.duePayments = duePayments,
              !.today = nowT,
              !.i = 1,
              !.pre = s.recurringPayments,
              !.after = after,
              !.pc = IF duePayments = <<>> THEN "done" ELSE "getExpenses",
              !.status = IF duePayments = <<>> THEN 404 ELSE 0]]

\* POST /api/recurring-payments/process up to the for loop; with nothing due
\* it answers at once.
StartProcess(s, duePayments, nowT, after) ==
    [s |-> s,
     r |-> [Idle EXCEPT
              !.route = "process",
              !.duePayments = duePayments,
              !.today = nowT,
              !.i = 1,
              !.pre = s.recurringPayments,
              !.after = after,
              !.pc = IF duePayments = <<>> THEN "done" ELSE "getExpenses",
              !.status = IF duePayments = <<>> THEN 200 ELSE 0]]

\* GetExpensesStep with the batch route's candidates starting at the
\* payment's start date instead of at its nextDueDate.
GetExpensesStepFromStart(s, r) ==
    LET payment == IF r.route = "create" THEN r.payment ELSE r.duePayments[r.i]
    IN  [s |-> s,
         r |-> [r EXCEPT
                  !.payment = payment,
                  !.currentDue = ParseDate(payment.startDate),
                  !.existingExpenses = s.expenses,
                  !.pc = "while"]]

\* const existingExpenses = await storage.getExpenses(), with currentDue set
\* to the start date (creation) or to the payment's nextDueDate (process).
GetExpensesStep(s, r) ==
    LET payment == IF r.route = "create" THEN r.payment ELSE r.duePayments[r.i]
    IN  [s |-> s,
         r |-> [r EXCEPT
                  !.payment = payment,
                  !.currentDue = IF r.route = "create"
                                 THEN ParseDate(payment.startDate)
                                 ELSE payment.nextDueDate,
                  !.existingExpenses = s.expenses,
                  !.pc = "while"]]

\* The catch block: status 500, nothing undone.
Failed(r, op) == [r EXCEPT !.pc = "done", !.status = 500, !.failedOp = op]

\* CandidateStep with the rejection swallowed: the loop goes on to the next
\* due date as if the expense had been skipped.
CandidateStepSwallow(s, r, fail) ==
    LET dueDateStr == ToISODate(r.currentDue)
        already ==
            IF r.route = "create"
            THEN alreadyProcessedOnCreate(r.existingExpenses, r.payment.description, dueDateStr)
            ELSE alreadyProcessedOnProcess(r.existingExpenses, r.payment.description, dueDateStr)
        description ==
            IF isBacklog(r.currentDue, r.today)
            THEN BacklogDescription(r.payment.description)
            ELSE LiveDescription(r.payment.description)
        made == createExpense(s,
                    [description |-> description,
                     category |-> r.payment.category,
                     amount |-> r.payment.amount,
                     date |-> dueDateStr], r.payment.id)
        expense == CHOOSE e \in made.expenses : e.id = s.currentExpenseId
        next == NextOccurrence(r.payment.frequency, r.currentDue)
    IN  IF already
        THEN [s |-> s, r |-> [r EXCEPT !.currentDue = next]]
        ELSE IF fail
        THEN [s |-> s, r |-> [r EXCEPT !.currentDue = next, !.failedOp = "createExpense"]]
        ELSE [s |-> made,
              r |-> [r EXCEPT !.currentDue = next,
                              !.processedExpenses = Append(@, expense)]]

\* CandidateStep with the duplicate check made against the store as it is at
\* the moment of the check instead of against the list read before the loop.
CandidateStepFreshRead(s, r, fail) ==
    LET dueDateStr == ToISODate(r.currentDue)
        already ==
            IF r.route = "create"
            THEN alreadyProcessedOnCreate(s.expenses, r.payment.description, dueDateStr)
            ELSE alreadyProcessedOnProcess(s.expenses, r.payment.description, dueDateStr)
        description ==
            IF isBacklog(r.currentDue, r.today)
            THEN BacklogDescription(r.payment.description)
            ELSE LiveDescription(r.payment.description)
        made == createExpense(s,
                    [description |-> description,
                     category |-> r.payment.category,
                     amount |-> r.payment.amount,
                     date |-> dueDateStr], r.payment.id)
        expense == CHOOSE e \in made.expenses : e.id = s.currentExpenseId
        next == NextOccurrence(r.payment.frequency, r.currentDue)
    IN  IF already
        THEN [s |-> s, r |-> [r EXCEPT !.currentDue = next]]
        ELSE IF fail
        THEN [s |-> s, r |-> Failed(r, "createExpense")]
        ELSE [s |-> made,
              r |-> [r EXCEPT !.currentDue = next,
                              !.processedExpenses = Append(@, expense)]]

\* One pass of the while loop: the duplicate check, the expense unless it is
\* suppressed, the move to the next due date.  fail: createExpense rejects.
CandidateStep(s, r, fail) ==
    LET dueDateStr == ToISODate(r.currentDue)
        already ==
            IF r.route = "create"
            THEN alreadyProcessedOnCreate(r.existingExpenses, r.payment.description, dueDateStr)
            ELSE alreadyProcessedOnProcess(r.existingExpenses, r.payment.description, dueDateStr)
        description ==
            IF isBacklog(r.currentDue, r.today)
            THEN BacklogDescription(r.payment.description)
            ELSE LiveDescription(r.payment.description)
        made == createExpense(s,
                    [description |-> description,
                     category |-> r.payment.category,
                     amount |-> r.payment.amount,
                     date |-> dueDateStr], r.payment.id)
        expense == CHOOSE e \in made.expenses : e.id = s.currentExpenseId
        next == NextOccurrence(r.payment.frequency, r.currentDue)
    IN  IF already
        THEN [s |-> s, r |-> [r EXCEPT !.currentDue = next]]
        ELSE IF fail
        THEN [s |-> s, r |-> Failed(r, "createExpense")]
        ELSE [s |-> made,
              r |-> [r EXCEPT !.currentDue = next,
                              !.processedExpenses = Append(@, expense)]]

\* UpdateStep with the cursor moved one period on from the payment's
\* nextDueDate instead of to the loop's final currentDue.
UpdateStepOnePeriod(s, r, fail) ==
    LET last == r.route = "create" \/ r.i >= Len(r.duePayments)
    IN  IF fail
        THEN [s |-> s, r |-> Failed(r, "updateRecurringPayment")]
        ELSE [s |-> updateRecurringPayment(s, r.payment.id,
                        [nextDueDate |-> NextOccurrence(r.payment.frequency, r.payment.nextDueDate)]),
              r |-> [r EXCEPT
                       !.i = IF r.route = "process" THEN @ + 1 ELSE @,
                       !.pc = IF last THEN "done" ELSE "getExpenses",
                       !.status = IF ~last THEN 0
                                  ELSE IF r.route = "create" THEN 201 ELSE 200]]

\* After the while loop: nextDueDate := currentDue, then the response (creation),
\* the next due payment or the response (process).  fail: the update rejects.
UpdateStep(s, r, fail) ==
    LET last == r.route = "create" \/ r.i >= Len(r.duePayments)
    IN  IF fail
        THEN [s |-> s, r |-> Failed(r, "updateRecurringPayment")]
        ELSE [s |-> updateRecurringPayment(s, r.payment.id, [nextDueDate |-> r.currentDue]),
              r |-> [r EXCEPT
                       !.i = IF r.route = "process" THEN @ + 1 ELSE @,
                       !.pc = IF last THEN "done" ELSE "getExpenses",
                       !.status = IF ~last THEN 0
                                  ELSE IF r.route = "create" THEN 201 ELSE 200]]

\* The next store operation of a request in flight.
Step(s, r, fail) ==
    CASE r.pc = "getExpenses" -> GetExpensesStep(s, r)
      [] r.pc = "while" /\ r.currentDue <= r.today -> CandidateStep(s, r, fail)
      [] r.pc = "while" /\ r.currentDue > r.today -> UpdateStep(s, r, fail)
      [] OTHER -> [s |-> s, r |-> r]

\* A request run to its response with no store failure.
RECURSIVE Run(_, _)
Run(s, r) ==
    IF r.pc = "done" THEN [s |-> s, r |-> r]
    ELSE LET n == Step(s, r, FALSE) IN Run(n.s, n.r)

\* ------------------------------------------------------------------ inputs

Jan10 == MakeDay(2024, 1, 10)
Feb10 == MakeDay(2024, 2, 10)
Mar10 == MakeDay(2024, 3, 10)
Apr03 == MakeDay(2024, 4, 3)
Apr10 == MakeDay(2024, 4, 10)

Netflix == <<"Netflix">>
NetflixPlus == <<"Netflix", " Plus">>

Descriptions == {Netflix, NetflixPlus}

CategoryOf(description) == IF description = Netflix THEN "Intrattenimento" ELSE "Bollette"
AmountOf(description) == IF description = Netflix THEN "12.99" ELSE "50.00"

InsertPayment(description, frequency, startDate, isActive) ==
    [description |-> description, category |-> CategoryOf(description),
     amount |-> AmountOf(description), frequency |-> frequency,
     startDate |-> startDate, isActive |-> isActive]

\* Request bodies that insertRecurringPaymentSchema accepts: the monthly
\* payments of either description from either start date, a paused one, a
\* weekly and a yearly one.
PaymentInputs ==
    {InsertPayment(d, "monthly", sd, "true") : d \in Descriptions, sd \in {Jan10, Mar10}}
    \cup {InsertPayment(Netflix, "monthly", Jan10, "false"),
          InsertPayment(Netflix, "weekly", Apr03, "true"),
          InsertPayment(NetflixPlus, "yearly", Jan10, "true")}

\* Request bodies of PUT /api/recurring-payments/:id (a partial payment;
\* nextDueDate is not a key of the schema).
PutInputs == {[isActive |-> a] : a \in {"true", "false"}}

\* Request bodies of POST /api/expenses.
ExpenseInputs ==
    {[description |-> d, category |-> "Altro", amount |-> "5.00", date |-> Apr10] :
        d \in {LiveDescription(<<"Cinema">>)}}

\* The instants at which the clock is read.
Instants ==
    {ParseDate(Jan10), ParseDate(Jan10) + 1, ParseDate(Apr10) + 1}

Slots == {1}

\* ------------------------------------------------------------------- state

VARIABLES
    impl,     \* the IStorage implementation behind `storage`
    stores,   \* the state of each implementation
    req,      \* the requests in flight and the last responses
    now,      \* the clock
    lastBatch,\* expenses created by the successful batch run that is the last
              \* thing that happened; -1 if the last thing was anything else
    failures, \* store operations that have rejected so far
    open      \* ids of the payments whose reconciliation has begun and has
              \* not yet persisted its nextDueDate

vars == <<impl, stores, req, now, lastBatch, failures, open>>

Init ==
    /\ impl \in Kinds
    /\ stores = [k \in Kinds |-> EmptyStore]
    /\ req = [q \in Slots |-> Idle]
    /\ now = ParseDate(Jan10)
    /\ lastBatch = -1
    /\ failures = 0
    /\ open = {}

Settled == \A q \in Slots : req[q].pc = "done"

\* A store operation of DatabaseStorage can reject; MemStorage's cannot.
Failures == IF impl = "db" /\ failures < MaxFailures THEN BOOLEAN ELSE {FALSE}

BatchSucceeded(r) == r.route = "process" /\ r.pc = "done" /\ r.status = 200

\* The payments under reconciliation after a request has moved from old to
\* new: the payment whose candidates it starts to walk joins, the payment
\* whose nextDueDate it has persisted leaves.
Reconciling(ids, old, new) ==
    IF old.pc = "getExpenses" THEN ids \cup {new.payment.id}
    ELSE IF old.pc = "while" /\ old.currentDue > old.today /\ new.failedOp = ""
    THEN ids \ {old.payment.id}
    ELSE ids

\* The request in slot q becomes r over the store s.
Advance(q, out) ==
    /\ stores' = [stores EXCEPT ![impl] = out.s]
    /\ req' = [req EXCEPT ![q] = out.r]
    /\ lastBatch' = IF BatchSucceeded(out.r) THEN Len(out.r.processedExpenses) ELSE -1
    /\ open' = Reconciling(open, req[q], out.r)
    /\ failures' = IF out.r.status = 500 THEN failures + 1 ELSE failures
    /\ UNCHANGED <<impl, now>>

\* The clock moves on between requests.
Tick ==
    /\ Settled
    /\ \E t \in Instants : t > now /\ now' = t
    /\ req' = [q \in Slots |-> Idle]
    /\ lastBatch' = -1
    /\ UNCHANGED <<impl, stores, failures, open>>

\* POST /api/recurring-payments
PostRecurringPayment(q) ==
    /\ Settled
    /\ stores[impl].currentRecurringPaymentId <= MaxPayments
    /\ \E validatedData \in PaymentInputs :
          Advance(q, StartCreate(impl, stores[impl], validatedData, now))

\* POST /api/recurring-payments/process
ProcessRecurringPayments(q) ==
    /\ Settled
    /\ \E duePayments \in DueOrders(impl, getDueRecurringPayments(impl, stores[impl], now)) :
          Advance(q, StartProcess(stores[impl], duePayments, now, lastBatch))

\* await storage.getExpenses() of either route
GetExpenses(q) ==
    /\ req[q].pc = "getExpenses"
    /\ Advance(q, GetExpensesStep(stores[impl], req[q]))

\* one pass of the while loop of either route
Candidate(q) ==
    /\ req[q].pc = "while"
    /\ req[q].currentDue <= req[q].today
    /\ \E fail \in Failures : Advance(q, CandidateStep(stores[impl], req[q], fail))

\* await storage.updateRecurringPayment(payment.id, {nextDueDate}) of either route
UpdateNextDueDate(q) ==
    /\ req[q].pc = "while"
    /\ req[q].currentDue > req[q].today
    /\ \E fail \in Failures : Advance(q, UpdateStep(stores[impl], req[q], fail))

\* POST /api/expenses
PostExpense ==
    /\ Settled
    /\ Cardinality({e \in stores[impl].expenses : e.source = 0}) < MaxManual
    /\ \E validatedData \in ExpenseInputs :
          stores' = [stores EXCEPT ![impl] = createExpense(@, validatedData, 0)]
    /\ req' = [q \in Slots |-> Idle]
    /\ lastBatch' = -1
    /\ UNCHANGED <<impl, now, failures, open>>

\* PUT /api/recurring-payments/:id
PutRecurringPayment ==
    /\ Settled
    /\ \E p \in stores[impl].recurringPayments, validatedData \in PutInputs :
          stores' = [stores EXCEPT ![impl] = updateRecurringPayment(@, p.id, validatedData)]
    /\ req' = [q \in Slots |-> Idle]
    /\ lastBatch' = -1
    /\ UNCHANGED <<impl, now, failures, open>>

\* DELETE /api/recurring-payments/:id
DeleteRecurringPayment ==
    /\ Settled
    /\ \E id \in 1..MaxPayments :
          LET found == \E p \in stores[impl].recurringPayments : p.id = id
          IN  /\ stores' = [stores EXCEPT ![impl] = deleteRecurringPayment(@, id)]
              /\ req' = [q \in Slots |->
                            [Idle EXCEPT !.route = "delete",
                                         !.payment = [NoPayment EXCEPT !.id = id],
                                         !.status = IF found THEN 204 ELSE 404]]
    /\ lastBatch' = -1
    /\ UNCHANGED <<impl, now, failures, open>>

\* ""  as a start date: the one date string that has no day number.
NoDate == -1

\* Number(val) for the amounts that occur: NaN, or the value in cents.
NumberOf(val) ==
    CASE val = "12.99" -> [nan |-> FALSE, cents |-> 1299]
      [] val = "50.00" -> [nan |-> FALSE, cents |-> 5000]
      [] val = "5.00"  -> [nan |-> FALSE, cents |-> 500]
      [] val = "0"     -> [nan |-> FALSE, cents |-> 0]
      [] val = "-5.00" -> [nan |-> FALSE, cents |-> -500]
      [] val = ""      -> [nan |-> FALSE, cents |-> 0]
      [] OTHER         -> [nan |-> TRUE, cents |-> 0]

\* insertRecurringPaymentSchema.parse without the refinement of amount.
ParsesAmountUnchecked(body) ==
    /\ body.amount # ""
    /\ Len(body.description) >= 1 /\ Len(body.description) <= 100
    /\ body.category # ""
    /\ body.frequency \in {"weekly", "monthly", "yearly"}
    /\ body.startDate # NoDate
    /\ body.isActive \in STRING

\* insertRecurringPaymentSchema.parse(req.body) does not throw.
Parses(body) ==
    /\ body.amount # ""
    /\ ~NumberOf(body.amount).nan /\ NumberOf(body.amount).cents > 0
    /\ Len(body.description) >= 1 /\ Len(body.description) <= 100
    /\ body.category # ""
    /\ body.frequency \in {"weekly", "monthly", "yearly"}
    /\ body.startDate # NoDate
    /\ body.isActive \in STRING

\* Request bodies with one field wrong.
MalformedInputs ==
    LET good == InsertPayment(Netflix, "monthly", Jan10, "true")
    IN  {[good EXCEPT !.amount = a] : a \in {"0", "abc"}}
        \cup {[good EXCEPT !.frequency = "daily"],
              [good EXCEPT !.description = <<>>],
              [good EXCEPT !.category = ""],
              [good EXCEPT !.startDate = NoDate]}

\* The 400 answer of POST /api/recurring-payments; the request slot keeps the
\* body that was refused.
Rejected(body) ==
    [Idle EXCEPT
        !.route = "create",
        !.status = 400,
        !.payment = [NoPayment EXCEPT
                        !.description = body.description,
                        !.category = body.category,
                        !.amount = body.amount,
                        !.frequency = body.frequency,
                        !.startDate = body.startDate,
                        !.isActive = body.isActive]]

\* POST /api/recurring-payments with a body from MalformedInputs: the parse,
\* then the ZodError answer or the rest of the handler.
PostMalformedRecurringPayment(q) ==
    /\ Settled
    /\ \E body \in MalformedInputs :
          IF Parses(body)
          THEN /\ stores[impl].currentRecurringPaymentId <= MaxPayments
               /\ Advance(q, StartCreate(impl, stores[impl], body, now))
          ELSE /\ req' = [req EXCEPT ![q] = Rejected(body)]
               /\ lastBatch' = -1
               /\ UNCHANGED <<impl, stores, now, failures, open>>

\* Both implementations side by side: the same request, served to its response
\* by each.
EquivInit ==
    /\ impl = "both"
    /\ stores = [k \in Kinds |-> EmptyStore]
    /\ req = [q \in Slots |-> Idle]
    /\ now = ParseDate(Jan10)
    /\ lastBatch = -1
    /\ failures = 0
    /\ open = {}

EquivTick ==
    /\ \E t \in Instants : t > now /\ now' = t
    /\ UNCHANGED <<impl, stores, req, lastBatch, failures, open>>

ServeCreate(k, validatedData) ==
    LET out == StartCreate(k, stores[k], validatedData, now)
    IN  Run(out.s, out.r).s

ServeProcess(k, duePayments) ==
    LET out == StartProcess(stores[k], duePayments, now, -1)
    IN  Run(out.s, out.r).s

EquivPostRecurringPayment ==
    /\ \A k \in Kinds : stores[k].currentRecurringPaymentId <= MaxPayments
    /\ \E validatedData \in PaymentInputs :
          stores' = [k \in Kinds |-> ServeCreate(k, validatedData)]
    /\ UNCHANGED <<impl, req, now, lastBatch, failures, open>>

EquivProcessRecurringPayments ==
    /\ \E dueMem \in DueOrders("mem", getDueRecurringPayments("mem", stores["mem"], now)),
          dueDb \in DueOrders("db", getDueRecurringPayments("db", stores["db"], now)) :
          stores' = [k \in Kinds |->
                        ServeProcess(k, IF k = "mem" THEN dueMem ELSE dueDb)]
    /\ UNCHANGED <<impl, req, now, lastBatch, failures, open>>

EquivNext ==
    \/ EquivTick
    \/ EquivPostRecurringPayment
    \/ EquivProcessRecurringPayments

SpecEquiv == EquivInit /\ [][EquivNext]_vars

Next ==
    \/ Tick
    \/ \E q \in Slots : PostRecurringPayment(q)
    \/ \E q \in Slots : ProcessRecurringPayments(q)
    \/ \E q \in Slots : GetExpenses(q)
    \/ \E q \in Slots : Candidate(q)
    \/ \E q \in Slots : UpdateNextDueDate(q)
    \/ PostExpense
    \/ PutRecurringPayment
    \/ DeleteRecurringPayment
    \/ \E q \in Slots : PostMalformedRecurringPayment(q)

Spec == Init /\ [][Next]_vars

\* ------------------------------------------------------------- properties

\* The store behind `storage`.
S == stores[impl]

\* The stored payment with this id.
Stored(id) == CHOOSE p \in S.recurringPayments : p.id = id

\* The expenses the reconciler has materialized for the payment with this id.
MaterializedFor(id) == {e \in S.expenses : e.source = id}

\* The due dates from `from` on, one period apart, up to upTo.
RECURSIVE Occurrences(_, _, _)
Occurrences(frequency, from, upTo) ==
    IF from > upTo THEN {}
    ELSE {from} \cup Occurrences(frequency, NextOccurrence(frequency, from), upTo)

\* The calendar day k months after a day whose day-of-month every month has.
MonthsLater(day, k) ==
    LET m0 == MonthOf(day) - 1 + k
    IN  MakeDay(YearOf(day) + (m0 \div 12), (m0 % 12) + 1, DayOfMonth(day))

HasMarker(description) ==
    Includes(description, BacklogMarker) \/ Includes(description, LiveMarker)

\* C1: a batch run that begins right after a successful batch run, the clock
\* not having moved, succeeds, creates no expense and leaves every recurring
\* payment's nextDueDate as the first run left it.
C1_BatchIdempotent ==
    \A q \in Slots :
        LET r == req[q]
        IN  (r.route = "process" /\ r.pc = "done" /\ r.after >= 0) =>
                /\ r.status = 200
                /\ r.processedExpenses = <<>>
                /\ \A p \in r.pre :
                      \E p2 \in S.recurringPayments :
                          p2.id = p.id /\ p2.nextDueDate = p.nextDueDate

\* A second batch run has answered, the first one having created expenses.
C1_Witness ==
    \E q \in Slots :
        req[q].route = "process" /\ req[q].pc = "done" /\ req[q].after > 0

\* C2: creating a monthly payment with start date D when today is D + k months
\* (the clock past midnight, the store holding nothing else) leaves exactly k+1
\* expenses for it, dated D .. D + k months, with the payment's category and
\* amount, marked backlog except the one dated today, which is marked live,
\* and the stored nextDueDate is D + (k+1) months.
C2_CreationBacklog ==
    \A q \in Slots : \A k \in 0..3 :
        LET r == req[q]
            D == r.payment.startDate
        IN  (/\ r.route = "create" /\ r.pc = "done" /\ r.status = 201
             /\ r.payment.frequency = "monthly"
             /\ r.pre = {}
             /\ \A e \in S.expenses : e.source = r.payment.id
             /\ TimeOfDay(r.today) > 0
             /\ ToISODate(r.today) = MonthsLater(D, k)) =>
                /\ Cardinality(MaterializedFor(r.payment.id)) = k + 1
                /\ \A j \in 0..k :
                      \E e \in MaterializedFor(r.payment.id) :
                          /\ e.date = MonthsLater(D, j)
                          /\ e.category = r.payment.category
                          /\ e.amount = r.payment.amount
                          /\ e.description =
                                IF j = k THEN LiveDescription(r.payment.description)
                                ELSE BacklogDescription(r.payment.description)
                /\ Stored(r.payment.id).nextDueDate = ParseDate(MonthsLater(D, k + 1))

\* C3: for every recurring payment and every date, at most one expense has
\* that date and the payment's description followed by an automatic marker.
C3_NoOccurrenceTwice ==
    \A p \in S.recurringPayments : \A e1, e2 \in S.expenses :
        (/\ e1.date = e2.date
         /\ e1.description \in {BacklogDescription(p.description), LiveDescription(p.description)}
         /\ e2.description \in {BacklogDescription(p.description), LiveDescription(p.description)})
            => e1.id = e2.id

\* C4: when a batch run has answered with success, every due date of every
\* payment it reconciled, from the payment's cursor on and up to now, has an
\* expense of that date whose description contains the payment's description
\* and a marker.
C4_BatchComplete ==
    \A q \in Slots :
        LET r == req[q]
        IN  (r.route = "process" /\ r.pc = "done" /\ r.status = 200) =>
                \A j \in 1..Len(r.duePayments) :
                    LET p == r.duePayments[j]
                    IN  \A o \in Occurrences(p.frequency, p.nextDueDate, r.today) :
                            \E e \in S.expenses :
                                /\ e.date = ToISODate(o)
                                /\ Includes(e.description, p.description)
                                /\ HasMarker(e.description)

\* C5: the payments a batch run works on are exactly those that were active
\* with nextDueDate <= now when it began; for a payment that was paused then,
\* the run creates no expense and leaves nextDueDate alone.
C5_ScannerActiveAndDue ==
    \A q \in Slots :
        LET r == req[q]
        IN  r.route = "process" =>
                /\ {r.duePayments[j] : j \in 1..Len(r.duePayments)}
                      = {p \in r.pre : p.isActive = "true" /\ p.nextDueDate <= r.today}
                /\ \A p \in r.pre :
                      p.isActive = "false" =>
                          /\ \A j \in 1..Len(r.processedExpenses) :
                                r.processedExpenses[j].source # p.id
                          /\ Stored(p.id).nextDueDate = p.nextDueDate

\* A batch run has reconciled a payment while an overdue paused one stood by.
C5_Witness ==
    \E q \in Slots :
        /\ req[q].route = "process" /\ req[q].pc = "done"
        /\ req[q].processedExpenses # <<>>
        /\ \E p \in req[q].pre : p.isActive = "false" /\ p.nextDueDate <= req[q].today

\* The expenses a request's reconciliation has created: the ones its route
\* created and, for a creation, the ones the store created with the payment.
CreatedBy(r) ==
    {r.processedExpenses[j] : j \in 1..Len(r.processedExpenses)}
    \cup (IF r.route = "create" THEN MaterializedFor(r.payment.id) ELSE {})

\* The request has persisted the cursor of the payment with this id.
Reconciled(r, id) ==
    \/ r.pc = "done" /\ r.status \in {200, 201}
    \/ r.route = "process" /\ \E j \in 1..Len(r.duePayments) : j < r.i /\ r.duePayments[j].id = id

CursorPastCreated ==
    \A q \in Slots : \A e \in CreatedBy(req[q]) :
        Reconciled(req[q], e.source) => Stored(e.source).nextDueDate > ParseDate(e.date)

CursorNotMovedBack ==
    \A p \in S.recurringPayments : \A p2 \in S'.recurringPayments :
        p2.id = p.id => p2.nextDueDate >= p.nextDueDate

\* C6: no step moves a payment's nextDueDate back, and once a reconciliation
\* has persisted the cursor, the cursor is after the date of every expense
\* that reconciliation created.
C6_MonotonicCursor == [][CursorNotMovedBack /\ CursorPastCreated']_vars

\* A reconciliation that created several expenses has persisted the cursor.
C6_Witness ==
    \E q \in Slots :
        /\ req[q].pc = "done" /\ req[q].status \in {200, 201}
        /\ Len(req[q].processedExpenses) >= 2

C8_FailureIsolated ==
    \A q \in Slots :
        LET r == req[q]
        IN  (r.route = "process" /\ r.pc = "done" /\ r.failedOp # "") =>
                \A j \in 1..Len(r.duePayments) :
                    r.duePayments[j].id # r.payment.id =>
                        Stored(r.duePayments[j].id).nextDueDate > r.today

\* C9: when createExpense has rejected in a batch run, the response is an
\* error, the payment being reconciled keeps the nextDueDate the scanner read,
\* and the expenses the run created before are still in the store.
C9_FailureKeepsCursor ==
    \A q \in Slots :
        LET r == req[q]
        IN  (r.route = "process" /\ r.failedOp = "createExpense") =>
                /\ r.pc = "done" /\ r.status = 500
                /\ Stored(r.payment.id).nextDueDate = r.payment.nextDueDate
                /\ \A j \in 1..Len(r.processedExpenses) : r.processedExpenses[j] \in S.expenses

\* createExpense has rejected after the run created an expense for the same
\* payment.
C9_Witness ==
    \E q \in Slots :
        /\ req[q].route = "process" /\ req[q].failedOp = "createExpense"
        /\ \E j \in 1..Len(req[q].processedExpenses) :
              req[q].processedExpenses[j].source = req[q].payment.id

\* What a client can see of a store: the expenses without their ids and each
\* payment's nextDueDate.
Observable(s) ==
    [expenses |-> {[description |-> e.description, category |-> e.category,
                    amount |-> e.amount, date |-> e.date] : e \in s.expenses},
     nextDueDate |-> {<<p.id, p.nextDueDate>> : p \in s.recurringPayments}]

\* C10: served the same creations and batch runs at the same times, MemStorage
\* and DatabaseStorage hold the same expenses and the same nextDueDates.
C10_StoresEquivalent == Observable(stores["mem"]) = Observable(stores["db"])

\* ------------------------------------------- two clients, requests interleaved

\* The most payments the store holds when two clients call the batch route.
ConcPayments == 1

\* Two mounted pages, each firing its own batch request.
Clients == {1, 2}

ConcInit ==
    /\ impl \in Kinds
    /\ stores = [k \in Kinds |-> EmptyStore]
    /\ req = [q \in Clients |-> Idle]
    /\ now = ParseDate(Jan10)
    /\ lastBatch = -1
    /\ failures = 0
    /\ open = {}

ConcSettled == \A q \in Clients : req[q].pc = "done"

ConcTick ==
    /\ ConcSettled
    /\ \E t \in Instants : t > now /\ now' = t
    /\ req' = [q \in Clients |-> Idle]
    /\ lastBatch' = -1
    /\ UNCHANGED <<impl, stores, failures, open>>

\* POST /api/recurring-payments, served while no other request is in flight.
ConcPostRecurringPayment(q) ==
    /\ ConcSettled
    /\ stores[impl].currentRecurringPaymentId <= ConcPayments
    /\ \E validatedData \in PaymentInputs :
          Advance(q, StartCreate(impl, stores[impl], validatedData, now))

\* POST /api/recurring-payments/process from a client that has no request in
\* flight; the other client's request may be between two store operations.
ConcProcessRecurringPayments(q) ==
    /\ req[q].pc = "done"
    /\ \E duePayments \in DueOrders(impl, getDueRecurringPayments(impl, stores[impl], now)) :
          Advance(q, StartProcess(stores[impl], duePayments, now, -1))

ConcNext ==
    \/ ConcTick
    \/ \E q \in Clients : ConcPostRecurringPayment(q)
    \/ \E q \in Clients : ConcProcessRecurringPayments(q)
    \/ \E q \in Clients : GetExpenses(q)
    \/ \E q \in Clients : Candidate(q)
    \/ \E q \in Clients : UpdateNextDueDate(q)

SpecConc == ConcInit /\ [][ConcNext]_vars

\* The expenses a request created for the payment it reconciled last.
CreatedForLast(r) ==
    {r.processedExpenses[j] : j \in 1..Len(r.processedExpenses)}
        \cap {e \in S.expenses : e.source = r.payment.id}

\* C11: when two batch runs have interleaved so that both read the same
\* expense list for the same payment before either wrote (same scanned
\* payment, same today, same list) and both have answered with success, every
\* expense one of them created for that payment has a twin created by the
\* other: a second expense of the same payment, date and description.
C11_RaceDoubles ==
    \A q1, q2 \in Clients :
        LET r1 == req[q1]
            r2 == req[q2]
        IN  (/\ q1 # q2
             /\ BatchSucceeded(r1) /\ BatchSucceeded(r2)
             /\ r1.payment # NoPayment
             /\ r1.payment = r2.payment
             /\ r1.today = r2.today
             /\ r1.existingExpenses = r2.existingExpenses) =>
                \A e1 \in CreatedForLast(r1) :
                    \E e2 \in CreatedForLast(r2) :
                        /\ e2.id # e1.id
                        /\ e2.date = e1.date
                        /\ e2.description = e1.description

\* Two batch runs have both answered and the store holds two expenses for the
\* same occurrence of the same payment, one created by each.
C11_Witness ==
    \E e1 \in CreatedForLast(req[1]), e2 \in CreatedForLast(req[2]) :
        /\ BatchSucceeded(req[1]) /\ BatchSucceeded(req[2])
        /\ e1.id # e2.id
        /\ e1.source = e2.source
        /\ e1.date = e2.date
        /\ {e1, e2} \subseteq S.expenses

\* --------------------------------------------- the frequency switch by itself

\* frequency: z.enum(["weekly", "monthly", "yearly"])
Frequencies == {"weekly", "monthly", "yearly"}

\* The due dates the switch is applied to: every day of 2024 and 2025.
DueDays == 0..(DaysBeforeYear(2026) - 1)

\* The switch has not been applied yet; now holds currentDue.
NotAdvanced == [frequency |-> "", from |-> -1, to |-> -1]

AdvanceInit ==
    /\ impl = "switch"
    /\ stores = <<>>
    /\ req = NotAdvanced
    /\ now \in {ParseDate(day) : day \in DueDays}
    /\ lastBatch = -1
    /\ failures = 0
    /\ open = {}

\* One pass through the switch: currentDue moves to the next due date.
MoveToNextDueDate ==
    /\ YearOf(ToISODate(now)) <= 2026
    /\ \E frequency \in Frequencies :
          /\ req' = [frequency |-> frequency, from |-> now,
                     to |-> NextOccurrence(frequency, now)]
          /\ now' = NextOccurrence(frequency, now)
    /\ UNCHANGED <<impl, stores, lastBatch, failures, open>>

SpecAdvance == AdvanceInit /\ [][MoveToNextDueDate]_vars

\* The day of the month after the month of `day` that a clamping advance
\* gives: the same day-of-month, or that month's last day if it is shorter.
ClampedMonthLater(day) ==
    LET y == YearOf(day)
        m == MonthOf(day)
        yy == IF m = 12 THEN y + 1 ELSE y
        mm == IF m = 12 THEN 1 ELSE m + 1
        d == IF DayOfMonth(day) > DaysInMonth(yy, mm)
             THEN DaysInMonth(yy, mm) ELSE DayOfMonth(day)
    IN  MakeDay(yy, mm, d)

\* C12: a monthly advance lands in the month that follows, on the same
\* day-of-month or, when that month is shorter, on its last day; never in the
\* month after (from January 31: the last day of February, then March 28/29).
C12_MonthlyClamps ==
    req.frequency = "monthly" =>
        ToISODate(req.to) = ClampedMonthLater(ToISODate(req.from))

\* ------------------------------------------------------------------ budgets

\* Budgets ever created in one behaviour.
MaxBudgets == 2

\* The budgets of a fresh store.
EmptyBudgets == [budgets |-> {}, currentBudgetId |-> 1]

\* createBudget: the next id, the inserted fields.
createBudget(s, insertBudget) ==
    [s EXCEPT
        !.budgets = @ \cup
            {[id |-> s.currentBudgetId,
              category |-> insertBudget.category,
              limit |-> insertBudget.limit,
              month |-> insertBudget.month]},
        !.currentBudgetId = @ + 1]

\* updateBudget: the budget with this id, if there is one, with the fields of
\* updateData written over its own.
updateBudget(s, id, updateData) ==
    [s EXCEPT
        !.budgets = {IF b.id = id THEN Merge(b, updateData) ELSE b : b \in @}]

\* Request bodies that insertBudgetSchema accepts.
BudgetInputs ==
    {[category |-> c, limit |-> l, month |-> "2024-01"] :
        c \in {"Cibo", "Casa"}, l \in {"100.00", "250.00"}}

\* Request bodies of PUT /api/budgets/:id: any part of a budget.
BudgetPutInputs ==
    {[limit |-> "250.00"]} \cup {[category |-> c] : c \in {"Cibo", "Casa"}}

NoBudget == [id |-> 0, category |-> "", limit |-> "", month |-> ""]

\* A budget request slot: the handler of POST /api/budgets between its awaits.
BudgetIdle ==
    [pc |-> "done", status |-> 0, validatedData |-> NoBudget,
     existingBudget |-> NoBudget, created |-> 0]

\* existingBudgets.find(...): the first budget of the pair in the order the
\* store lists them (Map insertion order; a SELECT with no ORDER BY).
FindExisting(k, budgets, validatedData) ==
    LET same == {b \in budgets : b.category = validatedData.category
                                 /\ b.month = validatedData.month}
    IN  IF same = {} THEN {NoBudget}
        ELSE IF k = "mem" THEN {b \in same : \A c \in same : b.id <= c.id}
        ELSE same

BudgetInit ==
    /\ impl \in Kinds
    /\ stores = EmptyBudgets
    /\ req = [q \in Clients |-> BudgetIdle]
    /\ now = ParseDate(Jan10)
    /\ lastBatch = -1
    /\ failures = 0
    /\ open = {}

\* POST /api/budgets: the body parsed, getBudgets awaited next.
PostBudget(q) ==
    /\ req[q].pc = "done"
    /\ \E validatedData \in BudgetInputs :
          req' = [req EXCEPT ![q] = [BudgetIdle EXCEPT
                                        !.pc = "getBudgets",
                                        !.validatedData = validatedData]]
    /\ UNCHANGED <<impl, stores, now, lastBatch, failures, open>>

\* await storage.getBudgets() and the search for the pair.
GetBudgets(q) ==
    /\ req[q].pc = "getBudgets"
    /\ \E existingBudget \in FindExisting(impl, stores.budgets, req[q].validatedData) :
          req' = [req EXCEPT ![q].pc = "write", ![q].existingBudget = existingBudget]
    /\ UNCHANGED <<impl, stores, now, lastBatch, failures, open>>

\* await storage.updateBudget(existingBudget.id, validatedData), or
\* await storage.createBudget(validatedData), and the response.
WriteBudget(q) ==
    /\ req[q].pc = "write"
    /\ IF req[q].existingBudget # NoBudget
       THEN /\ stores' = updateBudget(stores, req[q].existingBudget.id, req[q].validatedData)
            /\ req' = [req EXCEPT ![q].pc = "done", ![q].status = 200]
       ELSE /\ stores.currentBudgetId <= MaxBudgets
            /\ stores' = createBudget(stores, req[q].validatedData)
            /\ req' = [req EXCEPT ![q].pc = "done", ![q].status = 201,
                                  ![q].created = stores.currentBudgetId]
    /\ UNCHANGED <<impl, now, lastBatch, failures, open>>

\* PUT /api/budgets/:id
PutBudget ==
    /\ \E b \in stores.budgets, validatedData \in BudgetPutInputs :
          stores' = updateBudget(stores, b.id, validatedData)
    /\ UNCHANGED <<impl, req, now, lastBatch, failures, open>>

BudgetNext ==
    \/ \E q \in Clients : PostBudget(q)
    \/ \E q \in Clients : GetBudgets(q)
    \/ \E q \in Clients : WriteBudget(q)
    \/ PutBudget

SpecBudgets == BudgetInit /\ [][BudgetNext]_vars

\* C13: the store holds at most one budget per (category, month) pair, and a
\* POST that found a budget of its pair has created no new record.
C13_OneBudgetPerPair ==
    /\ \A b1, b2 \in stores.budgets :
          (b1.category = b2.category /\ b1.month = b2.month) => b1.id = b2.id
    /\ \A q \in Clients :
          (req[q].pc = "done" /\ req[q].existingBudget # NoBudget) => req[q].created = 0

\* ------------------------------------------------- the batch route's response

\* res.json({ processed: processedExpenses.length, expenses: processedExpenses })
Response(r) ==
    [processed |-> Len(r.processedExpenses), expenses |-> r.processedExpenses]

\* C14: a batch run that finds no due payment answers at once with success,
\* count 0 and an empty list of expenses, and the store is as it was.
C14_EmptyBatch ==
    [][\A q \in Slots :
          (/\ req'[q] # req[q]
           /\ req'[q].route = "process"
           /\ req'[q].duePayments = <<>>) =>
              /\ req'[q].pc = "done"
              /\ req'[q].status = 200
              /\ Response(req'[q]) = [processed |-> 0, expenses |-> <<>>]
              /\ stores' = stores]_vars

\* A batch run has answered having found nothing due, in a store that holds
\* recurring payments and expenses.
C14_Witness ==
    \E q \in Slots :
        /\ req[q].route = "process" /\ req[q].pc = "done"
        /\ req[q].duePayments = <<>>
        /\ S.recurringPayments # {}
        /\ S.expenses # {}

\* C15: the count a successful batch run reports is the number of due
\* payments it reconciled.
C15_CountIsPayments ==
    \A q \in Slots :
        BatchSucceeded(req[q]) =>
            Response(req[q]).processed = Len(req[q].duePayments)

\* C16: deleting a recurring payment removes that payment's record and nothing
\* else: the expenses, those materialized from it included, and the other
\* payments are as they were; deleting an id that is not there changes nothing.
C16_DeleteKeepsExpenses ==
    [][\A q \in Slots :
          (req'[q].route = "delete" /\ req'[q] # req[q]) =>
              /\ S'.expenses = S.expenses
              /\ S'.recurringPayments =
                    {p \in S.recurringPayments : p.id # req'[q].payment.id}
              /\ req'[q].status = 204 <=>
                    \E p \in S.recurringPayments : p.id = req'[q].payment.id]_vars

\* A recurring payment has just been deleted and expenses materialized from it
\* are in the store.
C16_Witness ==
    \E q \in Slots :
        /\ req[q].route = "delete" /\ req[q].status = 204
        /\ MaterializedFor(req[q].payment.id) # {}

\* Malformed as the claim lists it: an amount that is not a positive number, a
\* frequency that is none of the three, an empty description, category or
\* start date.
Malformed(body) ==
    \/ body.amount \notin {"12.99", "50.00", "5.00"}
    \/ body.frequency \notin {"weekly", "monthly", "yearly"}
    \/ body.description = <<>>
    \/ body.category = ""
    \/ body.startDate = NoDate

\* C17: a creation request with a malformed body is answered 400 and the
\* store is as it was: no payment, no expense, no nextDueDate changed.
C17_MalformedRejected ==
    [][\A q \in Slots :
          (/\ req'[q] # req[q]
           /\ req'[q].route = "create"
           /\ Malformed(req'[q].payment)) =>
              /\ req'[q].status = 400
              /\ req'[q].pc = "done"
              /\ stores' = stores]_vars

\* A malformed creation request has been refused by a store that holds
\* payments and expenses.
C17_Witness ==
    \E q \in Slots :
        /\ req[q].route = "create" /\ req[q].status = 400
        /\ Malformed(req[q].payment)
        /\ S.recurringPayments # {} /\ S.expenses # {}

\* C18: the due payments a batch run walks are in ascending order of
\* nextDueDate, ties broken by ascending id.
C18_ScanOrdered ==
    \A q \in Slots :
        LET due == req[q].duePayments
        IN  req[q].route = "process" =>
                \A i, j \in 1..Len(due) :
                    i < j =>
                        \/ due[i].nextDueDate < due[j].nextDueDate
                        \/ /\ due[i].nextDueDate = due[j].nextDueDate
                           /\ due[i].id < due[j].id

\* The description, category, amount the reconciler is to give the expense of
\* an occurrence of payment p when today is the instant t.
MarkedAsDue(e, p, t) ==
    /\ e.description =
          IF e.date < ToISODate(t) THEN BacklogDescription(p.description)
          ELSE LiveDescription(p.description)
    /\ e.category = p.category
    /\ e.amount = p.amount

\* The dates of the occurrences of payment p from `from` up to the instant t.
OccurrenceDays(p, from, t) ==
    {ToISODate(d) : d \in Occurrences(p.frequency, from, t)}

\* C19: every expense a request has materialized (by the creation route, by
\* MemStorage.createRecurringPayment, by the batch route) is marked backlog
\* exactly when its date is before the request's today and live otherwise,
\* has the payment's category and amount, and is dated on an occurrence.
C19_MarkerByDate ==
    \A q \in Slots :
        LET r == req[q]
        IN  /\ (r.route = "create" /\ r.payment.id # 0) =>
                  \A e \in MaterializedFor(r.payment.id) :
                      /\ MarkedAsDue(e, r.payment, r.today)
                      /\ e.date \in OccurrenceDays(r.payment,
                                        ParseDate(r.payment.startDate), r.today)
            /\ r.route = "process" =>
                  \A j \in 1..Len(r.processedExpenses) :
                      \E i \in 1..Len(r.duePayments) :
                          /\ r.duePayments[i].id = r.processedExpenses[j].source
                          /\ MarkedAsDue(r.processedExpenses[j], r.duePayments[i], r.today)
                          /\ r.processedExpenses[j].date \in
                                OccurrenceDays(r.duePayments[i],
                                    r.duePayments[i].nextDueDate, r.today)

\* The request in slot q takes one pass of the while loop in this step.
CandidatePass(q) ==
    /\ req[q].pc = "while"
    /\ req[q].currentDue <= req[q].today
    /\ req'[q] # req[q]

\* The pass made no call of createExpense.
Skipped(q) ==
    /\ req'[q].processedExpenses = req[q].processedExpenses
    /\ req'[q].status # 500

\* Some expense of the list the handler read has the candidate's date and a
\* description containing the payment's description and a marker.
Materialized(q) ==
    \E e \in req[q].existingExpenses :
        /\ e.date = ToISODate(req[q].currentDue)
        /\ Includes(e.description, req[q].payment.description)
        /\ HasMarker(e.description)

\* C20: on the creation route and on the batch route a candidate occurrence
\* is skipped if and only if some existing expense has the candidate's date
\* and a description that contains the payment's description and a marker.
C20_SkipIffMaterialized ==
    [][\A q \in Slots : CandidatePass(q) => (Skipped(q) <=> Materialized(q))]_vars

\* The first due date, counting from `from` one period at a time, that is
\* after the instant t.
RECURSIVE FirstAfter(_, _, _)
FirstAfter(frequency, from, t) ==
    IF from > t THEN from
    ELSE FirstAfter(frequency, NextOccurrence(frequency, from), t)

\* The due payments of a batch run for which the run created no expense.
AllSuppressed(r) ==
    {p \in {r.duePayments[i] : i \in 1..Len(r.duePayments)} :
        \A j \in 1..Len(r.processedExpenses) : r.processedExpenses[j].source # p.id}

\* C21: when a batch run has answered with success, a due payment for which
\* every candidate was suppressed (the run created no expense for it) has as
\* its stored nextDueDate the first occurrence after now, and is no longer due.
C21_SuppressedStillAdvances ==
    \A q \in Slots :
        BatchSucceeded(req[q]) =>
            \A p \in AllSuppressed(req[q]) :
                /\ Stored(p.id).nextDueDate =
                      FirstAfter(p.frequency, p.nextDueDate, req[q].today)
                /\ Stored(p.id).nextDueDate > now
                /\ Stored(p.id) \notin getDueRecurringPayments(impl, S, now)

\* A batch run has succeeded for a payment several periods behind without
\* creating any expense for it.
C21_Witness ==
    \E q \in Slots :
        /\ BatchSucceeded(req[q])
        /\ \E p \in AllSuppressed(req[q]) :
              NextOccurrence(p.frequency, p.nextDueDate) <= req[q].today

\* C22: a yearly advance from February 29 into a year that is not a leap
\* year lands on February 28 of that year.
C22_YearlyFromLeapDay ==
    LET from == ToISODate(req.from)
    IN  (/\ req.frequency = "yearly"
         /\ MonthOf(from) = 2 /\ DayOfMonth(from) = 29
         /\ ~IsLeap(YearOf(from) + 1)) =>
            ToISODate(req.to) = MakeDay(YearOf(from) + 1, 2, 28)

\* C23: as long as now has not reached a payment's start date, no expense has
\* been materialized for it, its stored nextDueDate is its start date, and
\* the due-payment scanner does not return it.
C23_FutureStartNotDue ==
    \A p \in S.recurringPayments :
        now < ParseDate(p.startDate) =>
            /\ MaterializedFor(p.id) = {}
            /\ p.nextDueDate = ParseDate(p.startDate)
            /\ p \notin getDueRecurringPayments(impl, S, now)

\* A batch run has answered while the store holds an active payment whose
\* start date is still ahead.
C23_Witness ==
    \E q \in Slots, p \in S.recurringPayments :
        /\ now < ParseDate(p.startDate)
        /\ p.isActive = "true"
        /\ req[q].route = "process" /\ req[q].pc = "done"

\* ------------------------------------------- PUT with any part of a payment

\* Request bodies of PUT /api/recurring-payments/:id that change the start
\* date or the frequency.
AnyPutInputs == {[startDate |-> Apr10], [frequency |-> "yearly"]}

\* PUT /api/recurring-payments/:id
PutAnyRecurringPayment ==
    /\ Settled
    /\ \E p \in stores[impl].recurringPayments, validatedData \in AnyPutInputs :
          stores' = [stores EXCEPT ![impl] = updateRecurringPayment(@, p.id, validatedData)]
    /\ req' = [q \in Slots |-> Idle]
    /\ lastBatch' = -1
    /\ UNCHANGED <<impl, now, failures, open>>

PutNext ==
    \/ Tick
    \/ \E q \in Slots : PostRecurringPayment(q)
    \/ \E q \in Slots : ProcessRecurringPayments(q)
    \/ \E q \in Slots : GetExpenses(q)
    \/ \E q \in Slots : Candidate(q)
    \/ \E q \in Slots : UpdateNextDueDate(q)
    \/ PutAnyRecurringPayment

SpecPut == Init /\ [][PutNext]_vars

\* C24: every recurring payment's nextDueDate is at or after its start date.
C24_NextDueNotBeforeStart ==
    \A p \in S.recurringPayments : p.nextDueDate >= ParseDate(p.startDate)

\* ------------------------------------------- reconciliation next to a budget

\* Budgets created in one behaviour alongside the recurring payments.
FrameBudgets == 1

FrameBudgetInputs == {[category |-> "Cibo", limit |-> "100.00", month |-> "2024-01"]}

\* POST /api/budgets served with no other request in flight: the budget of
\* the pair takes the new limit, or a budget is created.
PostBudgetServed ==
    /\ Settled
    /\ \E validatedData \in FrameBudgetInputs :
          \E existingBudget \in FindExisting(impl, stores[impl].budgets, validatedData) :
              IF existingBudget # NoBudget
              THEN stores' = [stores EXCEPT ![impl] =
                                 updateBudget(@, existingBudget.id, validatedData)]
              ELSE /\ stores[impl].currentBudgetId <= FrameBudgets
                   /\ stores' = [stores EXCEPT ![impl] = createBudget(@, validatedData)]
    /\ req' = [q \in Slots |-> Idle]
    /\ lastBatch' = -1
    /\ UNCHANGED <<impl, now, failures, open>>

FrameNext ==
    \/ Tick
    \/ \E q \in Slots : PostRecurringPayment(q)
    \/ \E q \in Slots : ProcessRecurringPayments(q)
    \/ \E q \in Slots : GetExpenses(q)
    \/ \E q \in Slots : Candidate(q)
    \/ \E q \in Slots : UpdateNextDueDate(q)
    \/ PostExpense
    \/ PostBudgetServed

SpecFrame == Init /\ [][FrameNext]_vars

\* A step of the creation route or of the batch route.
Reconciles(q) ==
    /\ req'[q] # req[q]
    /\ req'[q].route \in {"create", "process"}

\* C25: a step of the creation route or of the batch route leaves every
\* expense that existed as it was, leaves the budgets as they were, and
\* changes no field of an existing recurring payment but nextDueDate.
C25_OnlyAddsExpenses ==
    [][\A q \in Slots :
          Reconciles(q) =>
              /\ S.expenses \subseteq S'.expenses
              /\ S'.budgets = S.budgets
              /\ \A p \in S.recurringPayments :
                    \E p2 \in S'.recurringPayments :
                        p2 = [p EXCEPT !.nextDueDate = p2.nextDueDate]
              /\ Cardinality(S'.recurringPayments) <=
                    Cardinality(S.recurringPayments) + 1]_vars

\* A batch run has created expenses and moved a cursor in a store that holds
\* a budget, an expense from before the run and a paused payment.
C25_Witness ==
    \E q \in Slots :
        /\ BatchSucceeded(req[q])
        /\ req[q].processedExpenses # <<>>
        /\ S.budgets # {}
        /\ \E e \in S.expenses :
              \A j \in 1..Len(req[q].processedExpenses) : req[q].processedExpenses[j] # e
        /\ \E p \in S.recurringPayments : p.isActive = "false"

\* C26: when a batch run has answered with success, for any two of its due
\* payments with different descriptions, every date that is an occurrence of
\* both (from each one's cursor up to now) has an expense materialized for
\* the one and an expense materialized for the other.
C26_SharedDateBoth ==
    \A q \in Slots :
        LET r == req[q]
        IN  BatchSucceeded(r) =>
                \A i, j \in 1..Len(r.duePayments) :
                    LET p1 == r.duePayments[i]
                        p2 == r.duePayments[j]
                    IN  (i # j /\ p1.description # p2.description) =>
                            \A d \in OccurrenceDays(p1, p1.nextDueDate, r.today)
                                     \cap OccurrenceDays(p2, p2.nextDueDate, r.today) :
                                /\ \E e \in MaterializedFor(p1.id) : e.date = d
                                /\ \E e \in MaterializedFor(p2.id) : e.date = d

\* The batch run r reconciled the payment that the creation request c created.
RanInsideCreation(c, r) ==
    /\ c.route = "create" /\ c.pc = "done" /\ c.status = 201
    /\ BatchSucceeded(r)
    /\ \E i \in 1..Len(r.duePayments) : r.duePayments[i].id = c.payment.id

\* C27: when a batch run has reconciled a new payment between the creation
\* route's createRecurringPayment and its last update, and both have
\* answered, no two expenses materialized for the payment have the same date,
\* and the stored nextDueDate is not earlier than the one either wrote.
C27_CreationRaceSafe ==
    \A q1, q2 \in Clients :
        RanInsideCreation(req[q1], req[q2]) =>
            /\ \A e1, e2 \in MaterializedFor(req[q1].payment.id) :
                  e1.date = e2.date => e1.id = e2.id
            /\ \A p \in S.recurringPayments :
                  p.id = req[q1].payment.id =>
                      /\ p.nextDueDate >= req[q1].currentDue
                      /\ p.nextDueDate >=
                            FirstAfter(p.frequency, ParseDate(p.startDate), req[q2].today)

\* C28: a creation request for a payment with isActive = "false" materializes
\* no expense for it, whatever its start date.
C28_PausedNotMaterialized ==
    \A q \in Slots :
        (/\ req[q].route = "create"
         /\ req[q].payment.id # 0
         /\ req[q].payment.isActive = "false") =>
            MaterializedFor(req[q].payment.id) = {}

\* res.status(201).json(payment): the payment as createRecurringPayment
\* returned it.
CreatedResponse(r) == r.payment

\* C29: when the creation route has answered 201, the nextDueDate of the
\* payment in the response is the nextDueDate stored for that payment.
C29_ResponseNextDueDate ==
    \A q \in Slots :
        (req[q].route = "create" /\ req[q].pc = "done" /\ req[q].status = 201) =>
            CreatedResponse(req[q]).nextDueDate = Stored(req[q].payment.id).nextDueDate

\* ------------------------------------------------ the user deletes expenses

\* Expenses deleted in one behaviour.
MaxDeleted == 1

\* deleteExpense: the expense with that id, if any, goes.
deleteExpense(s, id) ==
    LET gone == {e \in s.expenses : e.id = id /\ e.source # 0}
    IN  [s EXCEPT
            !.expenses = {e \in @ : e.id # id},
            !.deleted = @ \cup
                {[source |-> e.source, date |-> e.date,
                  past |-> \E p \in s.recurringPayments :
                              p.id = e.source /\ p.nextDueDate > ParseDate(e.date)] :
                 e \in gone}]

\* DELETE /api/expenses/:id, for an expense that reconciliation created.
DeleteExpense ==
    /\ Settled
    /\ Cardinality(stores[impl].deleted) < MaxDeleted
    /\ \E e \in stores[impl].expenses :
          /\ e.source # 0
          /\ stores' = [stores EXCEPT ![impl] = deleteExpense(@, e.id)]
    /\ req' = [q \in Slots |-> Idle]
    /\ lastBatch' = -1
    /\ UNCHANGED <<impl, now, failures, open>>

DeleteNext ==
    \/ Tick
    \/ \E q \in Slots : PostRecurringPayment(q)
    \/ \E q \in Slots : ProcessRecurringPayments(q)
    \/ \E q \in Slots : GetExpenses(q)
    \/ \E q \in Slots : Candidate(q)
    \/ \E q \in Slots : UpdateNextDueDate(q)
    \/ DeleteExpense

SpecDelete == Init /\ [][DeleteNext]_vars

\* An expense is in the store for the payment and date of this deleted one.
Recreated(x) ==
    \E e \in S.expenses : e.source = x.source /\ e.date = x.date

====
